---- MODULE Spec2Model ----
(***************************************************************************)
(* Model of the reader classes (readers.py: MesoNH, Antilope, Satellite),  *)
(* the index helpers (get_index, get_index_from_vect, lonlat_to_index)     *)
(* and the Map class (plots.py), and of the scripts that drive them:       *)
(* plot_antilope, plot_precip_inprr, plot_precip_acprr, get_wind10,        *)
(* get_pressure, meso_nh.animation and the get_limits of plot_netcdf.      *)
(*                                                                         *)
(* A netCDF file on disk is a record [ok, variables]: ok = FALSE is a file *)
(* that Dataset() cannot open; variables maps a variable name to its array *)
(* (a tuple over the time axis of 2-D grids, or a 2-D grid for lon/lat).   *)
(* A 2-D grid is a tuple of rows; Python's 0-based array[j, i] is          *)
(* grid[j + 1][i + 1].                                                     *)
(***************************************************************************)
EXTENDS Integers, Sequences, FiniteSets, TLC

VARIABLES
    kind,       \* the reader class: "MesoNH", "Antilope" or "Satellite"
    tsel,       \* Antilope.day_index / Satellite.time_step (0 for MesoNH)
    files,      \* reader.files
    data,       \* reader.data: the name of the open file, or None
    longitude,  \* reader.longitude
    latitude,   \* reader.latitude
    cur,        \* index given to the most recent successful get_data, or None
    call,       \* the last call: operation, arguments, exception, return value
    before,     \* files, data, longitude and latitude as the last call found them
    opens,      \* the files Dataset() was called on during the last call, in order
    arrays,     \* the arrays <<x_array, y_array>> the index functions are given
    lookup,     \* the last call of an index function: arguments and return value
    map,        \* the Map object: its longitude, latitude and axes attributes
    figures,    \* the number of figures pyplot has created
    decorated,  \* the axes that carry coastlines, borders and gridlines
    inited,     \* the axes the most recent init_axes returned, or None
    plot,       \* the last call of a Map method: arguments, exception, return value
    script,     \* the script function that was called, with its arguments
    pc,         \* the statement the script function is at; "done", "raised" at its end
    locals,     \* the local variables of the script function
    effects     \* the figures and animations the script function has saved, in order

vars == <<kind, tsel, files, data, longitude, latitude, cur, call, before, opens,
         arrays, lookup, map, figures, decorated, inited, plot,
         script, pc, locals, effects>>

None == "None"

(***************************************************************************)
(* Bounds                                                                  *)
(***************************************************************************)
MaxFiles == 2

\* The arrays the index functions search hold the even numbers up to 2 * MaxCoord;
\* the targets are the integers in between as well.
MaxCoord == 1

\* The number of figures pyplot may create.
MaxFigures == 2

(***************************************************************************)
(* Python indexing                                                         *)
(***************************************************************************)
\* seq[k] for a Python sequence of length n: negative k counts from the end.
PyIndexOk(k, n) == -n <= k /\ k < n

PyIndex(k, n) == IF k < 0 THEN k + n ELSE k

\* The bounds of the slice seq[start:stop] of a sequence of length n.
PySliceBound(b, n) ==
    IF b < 0 THEN (IF b + n < 0 THEN 0 ELSE b + n)
    ELSE IF b > n THEN n ELSE b

\* The 0-based indices selected by seq[start:stop].
PySlice(start, stop, n) == PySliceBound(start, n) .. (PySliceBound(stop, n) - 1)

\* list(range(start, stop, step)) for a positive step
PyRange(start, stop, step) ==
    [k \in 1 .. (IF stop > start THEN (stop - start + step - 1) \div step ELSE 0)
        |-> start + (k - 1) * step]

(***************************************************************************)
(* Grids                                                                   *)
(***************************************************************************)
NRows(g) == Len(g)

NCols(g) == Len(g[1])

At(g, j, i) == g[j + 1][i + 1]

Cells(g) == (0 .. NRows(g) - 1) \X (0 .. NCols(g) - 1)

RECURSIVE SumOver(_, _)
SumOver(g, cells) ==
    IF cells = {} THEN 0
    ELSE LET c == CHOOSE x \in cells : TRUE
         IN  At(g, c[1], c[2]) + SumOver(g, cells \ {c})

\* ndarray.min() and ndarray.max()
GridMin(g) == CHOOSE v \in {At(g, c[1], c[2]) : c \in Cells(g)} :
                  \A c \in Cells(g) : v <= At(g, c[1], c[2])

GridMax(g) == CHOOSE v \in {At(g, c[1], c[2]) : c \in Cells(g)} :
                  \A c \in Cells(g) : v >= At(g, c[1], c[2])

(***************************************************************************)
(* The files on disk                                                       *)
(***************************************************************************)
G1 == << <<1, 2, 3>>, <<4, 5, 6>>, <<7, 8, 9>> >>
G2 == << <<5, 0, 2>>, <<3, 3, 8>>, <<1, 6, 4>> >>
G3 == << <<2, 2, 1>>, <<0, 7, 3>>, <<4, 4, 5>> >>
G4 == << <<9, 1, 0>>, <<2, 6, 6>>, <<3, 0, 7>> >>

LonA == << <<10, 20, 30>>, <<11, 21, 31>>, <<12, 22, 32>> >>
LatA == << <<40, 41, 42>>, <<50, 51, 52>>, <<60, 61, 62>> >>
LonB == << <<15, 25, 35>>, <<16, 26, 36>>, <<17, 27, 37>> >>

\* The name of the longitude / latitude variable each reader class reads.
LonName(k) == IF k = "MesoNH" THEN "longitude" ELSE "lon"

LatName(k) == IF k = "MesoNH" THEN "latitude" ELSE "lat"

Geo(lon, lat) ==
    [n \in {"longitude", "latitude", "lon", "lat"} |->
        IF n \in {"longitude", "lon"} THEN lon ELSE lat]

Merge(f, g) == [n \in (DOMAIN f) \cup (DOMAIN g) |-> IF n \in DOMAIN f THEN f[n] ELSE g[n]]

\* str(t).zfill(3)
zfill3(t) ==
    IF t < 10 THEN "00" \o ToString(t)
    ELSE IF t < 100 THEN "0" \o ToString(t)
    ELSE ToString(t)

\* The resolutions DX, in metres, the Meso-NH simulation was run at.
Resolutions == {250, 500, 1000}

\* The number of output files of a simulation, one a minute: OUT.001 .. OUT.360.
SimLength == 360

\* The file list get_mesonh builds for each resolution (path = "../Donnees/").
MesoNHFiles ==
    [dx \in Resolutions |->
        [t \in 1 .. SimLength |->
            "../Donnees/DX" \o ToString(dx) \o "/CORSE.1.SEG01.OUT." \o zfill3(t) \o ".nc"]]

\* The file list meso_nh.animation builds: every second output file.
AnimationFiles ==
    [dx \in Resolutions |->
        LET time_index == PyRange(1, SimLength + 1, 2)
        IN  [k \in 1 .. Len(time_index) |->
                "/mesonh/panf/ADASTRA/CORSE/DX" \o ToString(dx) \o "/CORSE.1.SEG01.OUT."
                    \o zfill3(time_index[k]) \o ".nc"]]

\* The output file of minute t: the instantaneous rain rate INPRR, the rain
\* accumulated since the start ACPRR, and the time in seconds.
SimFile(t) ==
    [ok |-> TRUE,
     variables |->
         Merge(Geo(LonA, LatA),
               [INPRR |-> << [j \in 1 .. 3 |-> [i \in 1 .. 3 |-> (t + i + 2 * j) % 4]] >>,
                ACPRR |-> << [j \in 1 .. 3 |-> [i \in 1 .. 3 |-> (t * t) \div 100 + i * j]] >>,
                time |-> <<60 * t>>])]

\* The output files on disk, each with its minute.
SimPairs ==
    {<<MesoNHFiles[dx][t], t>> : dx \in Resolutions, t \in 1 .. SimLength}
        \cup {<<AnimationFiles[dx][k], 2 * k - 1>> :
                   dx \in Resolutions, k \in 1 .. Len(AnimationFiles[250])}

\* The names of the files the readers are built on in the checks of the reader
\* classes.
FileNames == {"f1.nc", "f2.nc", "f3.nc", "f4.nc"}

\* The file system: the content of each file name. f3.nc lacks the variables B,
\* prec and time and is on another grid; f4.nc cannot be opened; the other
\* names are the output files of the simulations.
Disk ==
    [name \in FileNames \cup {p[1] : p \in SimPairs} |->
        CASE name = "f1.nc" ->
                 [ok |-> TRUE,
                  variables |-> Merge(Geo(LonA, LatA),
                                      [A |-> <<G1, G2>>, B |-> <<G3, G4>>,
                                       prec |-> <<G2, G1>>,
                                       time |-> [k \in 1 .. 18 |-> 24 * (k - 1)]])]
          [] name = "f2.nc" ->
                 [ok |-> TRUE,
                  variables |-> Merge(Geo(LonA, LatA),
                                      [A |-> <<G2, G4>>, B |-> <<G1, G3>>,
                                       prec |-> <<G3, G4>>,
                                       time |-> [k \in 1 .. 18 |-> 24 * k]])]
          [] name = "f3.nc" ->
                 [ok |-> TRUE,
                  variables |-> Merge(Geo(LonB, LatA), [A |-> <<G4, G3>>])]
          [] name = "f4.nc" ->
                 [ok |-> FALSE, variables |-> Geo(LonA, LatA)]
          [] OTHER -> SimFile((CHOOSE p \in SimPairs : p[1] = name)[2])]

Readers == {"MesoNH", "Antilope", "Satellite"}

TimeSteps == {0, 1}

RECURSIVE SeqsUpTo(_, _)
SeqsUpTo(S, n) ==
    IF n = 0 THEN {<<>>}
    ELSE LET shorter == SeqsUpTo(S, n - 1)
         IN  shorter \cup {Append(s, x) : s \in shorter, x \in S}

(***************************************************************************)
(* Reading variables and applying func                                     *)
(***************************************************************************)
\* Mutant: every reader class reads time index 0, as MesoNH does.
TimeSel_always_zero(k, t) == 0

\* The time selection of each reader class: [0], [self.day_index], [self.time_step].
TimeSel(k, t) == IF k = "MesoNH" THEN 0 ELSE t

\* ds.variables[varname][t]
ReadVar(ds, varname, t) ==
    IF varname \notin DOMAIN ds.variables THEN [raised |-> "KeyError", value |-> <<>>]
    ELSE LET arr == ds.variables[varname]
         IN  IF ~PyIndexOk(t, Len(arr)) THEN [raised |-> "IndexError", value |-> <<>>]
             ELSE [raised |-> "none", value |-> arr[PyIndex(t, Len(arr)) + 1]]

\* args = []; for varname in varnames: args.append(ds.variables[varname][t])
RECURSIVE ReadArgs(_, _, _, _)
ReadArgs(ds, varnames, t, args) ==
    IF varnames = <<>> THEN [raised |-> "none", value |-> args]
    ELSE LET r == ReadVar(ds, Head(varnames), t)
         IN  IF r.raised # "none" THEN r
             ELSE ReadArgs(ds, Tail(varnames), t, Append(args, r.value))

\* The combining functions the scripts pass: the default lambda x: x, a
\* function of two arrays that is not symmetric in its arguments, and the
\* lambda x: x * 60 of plot_precip_inprr ("times60").
Funcs == {"id", "sub"}

Arity(func) == IF func \in {"id", "times60"} THEN 1 ELSE 2

\* func(*args)
ApplyFunc(func, args) ==
    IF Len(args) # Arity(func) THEN [raised |-> "TypeError", value |-> <<>>]
    ELSE IF func = "id" THEN [raised |-> "none", value |-> args[1]]
    ELSE IF func = "times60"
    THEN [raised |-> "none",
          value |-> [j \in 1 .. Len(args[1]) |->
                        [i \in 1 .. Len(args[1][j]) |-> args[1][j][i] * 60]]]
    ELSE [raised |-> "none",
          value |-> [j \in 1 .. Len(args[1]) |->
                        [i \in 1 .. Len(args[1][j]) |-> args[1][j][i] - args[2][j][i]]]]

\* args = [...]; func(*args) on an open Dataset
Compute(ds, varnames, func, t) ==
    LET r == ReadArgs(ds, varnames, t, <<>>)
    IN  IF r.raised # "none" THEN r ELSE ApplyFunc(func, r.value)

\* The (varnames, func) pairs the calls are drawn from; the last one gives func
\* one argument too many.
Calls == {<<<<"A">>, "id">>, <<<<"B">>, "id">>, <<<<"A", "B">>, "sub">>,
          <<<<"B", "A">>, "sub">>, <<<<"A", "B">>, "id">>}

(***************************************************************************)
(* Extended numbers (np.inf, -np.inf) and exact means                      *)
(***************************************************************************)
PosInf == [inf |-> 1, v |-> 0]

NegInf == [inf |-> -1, v |-> 0]

Fin(x) == [inf |-> 0, v |-> x]

\* Mutant: the comparison of get_limits' minimum update turned round.
LtExt_swapped(x, a) == a.inf = 1 \/ (a.inf = 0 /\ x > a.v)

\* x < a and x > a for a finite x and an extended a
LtExt(x, a) == a.inf = 1 \/ (a.inf = 0 /\ x < a.v)

GtExt(x, a) == a.inf = -1 \/ (a.inf = 0 /\ x > a.v)

\* A mean is the exact fraction n / d; d = 0 is nan (np.mean of nothing).
NaN == [n |-> 0, d |-> 0]

IsNaN(a) == a.d = 0

RatEq(a, b) == (IsNaN(a) <=> IsNaN(b)) /\ a.n * b.d = b.n * a.d

RatAdd(a, b) == IF IsNaN(a) \/ IsNaN(b) THEN NaN
                ELSE [n |-> a.n * b.d + b.n * a.d, d |-> a.d * b.d]

\* np.mean(array[rows, cols])
WindowMean(g, cells) == [n |-> SumOver(g, cells), d |-> Cardinality(cells)]

\* np.mean(list of means)
RECURSIVE RatSum(_)
RatSum(ms) == IF Len(ms) = 1 THEN ms[1] ELSE RatAdd(ms[1], RatSum(Tail(ms)))

ListMean(ms) == LET s == RatSum(ms)
                IN  IF IsNaN(s) THEN NaN ELSE [n |-> s.n, d |-> s.d * Len(ms)]

(***************************************************************************)
(* The reader's methods. Each returns what the call raises ("none" when it *)
(* returns), the value returned, the reader's attributes after the call    *)
(* (none of the methods assigns longitude or latitude) and the file        *)
(* indices Dataset() was called on.                                        *)
(***************************************************************************)
Outcome(raised, ret, newdata, opened) ==
    [raised |-> raised, ret |-> ret, data |-> newdata, opens |-> opened,
     longitude |-> longitude, latitude |-> latitude]

\* Dataset(self.files[k]): the exception, if any
OpenRaises(k) ==
    IF ~PyIndexOk(k, Len(files)) THEN "IndexError"
    ELSE IF ~Disk[files[PyIndex(k, Len(files)) + 1]].ok THEN "OSError"
    ELSE "none"

FileAt(k) == files[PyIndex(k, Len(files)) + 1]

\* Mutant: get_data also reloads the coordinates from the file it opens.
get_data_reloads_grid(file_index) ==
    LET e == OpenRaises(file_index)
    IN  IF e = "IndexError" THEN Outcome(e, None, data, <<>>)
        ELSE IF e = "OSError"
             THEN Outcome(e, None, data, <<PyIndex(file_index, Len(files))>>)
        ELSE [Outcome("none", None, FileAt(file_index),
                      <<PyIndex(file_index, Len(files))>>)
                 EXCEPT !.longitude = Disk[FileAt(file_index)].variables[LonName(kind)],
                        !.latitude = Disk[FileAt(file_index)].variables[LatName(kind)]]

\* Mutant: get_data drops the open file before it opens the next one.
get_data_closes_first(file_index) ==
    LET e == OpenRaises(file_index)
    IN  IF e = "IndexError" THEN Outcome(e, None, None, <<>>)
        ELSE IF e = "OSError"
             THEN Outcome(e, None, None, <<PyIndex(file_index, Len(files))>>)
        ELSE Outcome("none", None, FileAt(file_index),
                     <<PyIndex(file_index, Len(files))>>)

\* self.data = Dataset(self.files[file_index])
get_data(file_index) ==
    LET e == OpenRaises(file_index)
    IN  IF e = "IndexError" THEN Outcome(e, None, data, <<>>)
        ELSE IF e = "OSError"
             THEN Outcome(e, None, data, <<PyIndex(file_index, Len(files))>>)
        ELSE Outcome("none", None, FileAt(file_index),
                     <<PyIndex(file_index, Len(files))>>)

\* get_var(*varnames, func=func)
get_var(varnames, func) ==
    IF data = None THEN Outcome("AttributeError", <<>>, data, <<>>)
    ELSE LET r == Compute(Disk[data], varnames, func, TimeSel(kind, tsel))
         IN  Outcome(r.raised, r.value, data, <<>>)

\* The loop of get_limits from the file at 0-based index i on.
RECURSIVE LimitsLoop(_, _, _, _, _, _)
LimitsLoop(varnames, func, i, var_min, var_max, opened) ==
    IF i >= Len(files) THEN Outcome("none", <<var_min, var_max>>, data, opened)
    ELSE IF ~Disk[files[i + 1]].ok THEN Outcome("OSError", <<>>, data, Append(opened, i))
    ELSE LET r == Compute(Disk[files[i + 1]], varnames, func, TimeSel(kind, tsel))
         IN  IF r.raised # "none" THEN Outcome(r.raised, <<>>, data, Append(opened, i))
             ELSE LET current_min == GridMin(r.value)
                      current_max == GridMax(r.value)
                  IN  LimitsLoop(varnames, func, i + 1,
                          IF LtExt(current_min, var_min) THEN Fin(current_min) ELSE var_min,
                          IF GtExt(current_max, var_max) THEN Fin(current_max) ELSE var_max,
                          Append(opened, i))

\* Mutant: get_limits keeps the limits of the previous call and reuses them
\* when it is called again with the same arguments.
get_limits_cached(varnames, func) ==
    IF call.op = "get_limits" /\ call.raised = "none" /\ call.args = <<varnames, func>>
    THEN Outcome("none", call.ret, data, <<>>)
    ELSE LimitsLoop(varnames, func, 0, PosInf, NegInf, <<>>)

\* Mutant: get_limits goes through the files with self.data, so the last file
\* it opened stays open.
get_limits_leaves_last_open(varnames, func) ==
    LET o == LimitsLoop(varnames, func, 0, PosInf, NegInf, <<>>)
    IN  IF o.opens = <<>> \/ ~Disk[files[o.opens[Len(o.opens)] + 1]].ok THEN o
        ELSE [o EXCEPT !.data = files[o.opens[Len(o.opens)] + 1]]

\* get_limits(*varnames, func=func)
get_limits(varnames, func) == LimitsLoop(varnames, func, 0, PosInf, NegInf, <<>>)

\* The t_range argument: given = FALSE is None.
NoRange == [given |-> FALSE, idx |-> <<>>]

Range(s) == [given |-> TRUE, idx |-> s]

\* if not t_range: t_range = range(0, len(self.files))
EffectiveRange(t_range) ==
    IF ~t_range.given \/ t_range.idx = <<>>
    THEN [k \in 1 .. Len(files) |-> k - 1]
    ELSE t_range.idx

\* array[index_j - size : index_j + size, index_i - size : index_i + size]
Window(g, index_i, index_j, size) ==
    PySlice(index_j - size, index_j + size, NRows(g))
        \X PySlice(index_i - size, index_i + size, NCols(g))

\* The loop of get_mean over the rest of t_range.
RECURSIVE MeanLoop(_, _, _, _, _, _, _, _)
MeanLoop(index_i, index_j, varnames, func, rest, size, mean_per_timestep, opened) ==
    IF rest = <<>> THEN Outcome("none", ListMean(mean_per_timestep), data, opened)
    ELSE LET i == Head(rest)
             e == OpenRaises(i)
         IN  IF e = "IndexError" THEN Outcome(e, NaN, data, opened)
             ELSE IF e = "OSError"
                  THEN Outcome(e, NaN, data, Append(opened, PyIndex(i, Len(files))))
             ELSE LET r == Compute(Disk[FileAt(i)], varnames, func, 0)
                      o == Append(opened, PyIndex(i, Len(files)))
                  IN  IF r.raised # "none" THEN Outcome(r.raised, NaN, data, o)
                      ELSE MeanLoop(index_i, index_j, varnames, func, Tail(rest), size,
                               Append(mean_per_timestep,
                                      WindowMean(r.value,
                                                 Window(r.value, index_i, index_j, size))),
                               o)

\* MesoNH.get_mean(index_i, index_j, *varnames, func=func, t_range=t_range, size=size)
get_mean(index_i, index_j, varnames, func, t_range, size) ==
    MeanLoop(index_i, index_j, varnames, func, EffectiveRange(t_range), size, <<>>, <<>>)

(***************************************************************************)
(* The index functions                                                     *)
(***************************************************************************)
\* The cells of a 2-D array in row-major (C) order, the order of np.where.
RowMajor(g) == [n \in 1 .. NRows(g) * NCols(g) |->
                   <<(n - 1) \div NCols(g), (n - 1) % NCols(g)>>]

Abs(x) == IF x < 0 THEN -x ELSE x

\* array.min()
MinOf(g) == GridMin(g)

\* np.array(np.where(g == m)): the cells that hold m, in row-major order
Where(g, m) == SelectSeq(RowMajor(g), LAMBDA c : At(g, c[1], c[2]) = m)

\* Mutant: the last match instead of the first (index[:, -1]).
get_index_last(array, target) ==
    LET delta == [j \in 1 .. NRows(array) |->
                     [i \in 1 .. NCols(array) |-> Abs(target - array[j][i])]]
        index == Where(delta, MinOf(delta))
    IN  index[Len(index)]

\* readers.get_index(array, target)
get_index(array, target) ==
    LET delta == [j \in 1 .. NRows(array) |->
                     [i \in 1 .. NCols(array) |-> Abs(target - array[j][i])]]
        index == Where(delta, MinOf(delta))
    IN  index[1]

\* plots.get_index(var_array, value)
plots_get_index(var_array, value) ==
    LET delta == [j \in 1 .. NRows(var_array) |->
                     [i \in 1 .. NCols(var_array) |-> Abs(value - var_array[j][i])]]
        index == Where(delta, MinOf(delta))
    IN  index[1]

\* The squares of the norms of get_index_from_vect. np.sqrt is increasing, so
\* the cells where the norm is least are those where its square is.
NormsSquared(x_array, y_array, value) ==
    [j \in 1 .. NRows(x_array) |->
        [i \in 1 .. NCols(x_array) |->
            (x_array[j][i] - value[1]) * (x_array[j][i] - value[1])
                + (y_array[j][i] - value[2]) * (y_array[j][i] - value[2])]]

\* get_index_from_vect(x_array, y_array, value)
get_index_from_vect(x_array, y_array, value) ==
    LET norms == NormsSquared(x_array, y_array, value)
        index == Where(norms, MinOf(norms))
    IN  index[1]

\* Mutant: the two indices returned in the order get_index_from_vect gives them.
lonlat_to_index_unswapped(reader, lon, lat) ==
    get_index_from_vect(reader.longitude, reader.latitude, <<lon, lat>>)

\* lonlat_to_index(reader, lon, lat): j, i = get_index_from_vect(...); return i, j
lonlat_to_index(reader, lon, lat) ==
    LET ji == get_index_from_vect(reader.longitude, reader.latitude, <<lon, lat>>)
    IN  <<ji[2], ji[1]>>

Coords == {2 * k : k \in 0 .. MaxCoord}

Targets == 0 .. 2 * MaxCoord

\* The 2 x 2 arrays over Coords.
Arrays == {<<<<a, b>>, <<c, d>>>> : a \in Coords, b \in Coords, c \in Coords, d \in Coords}

NoLookup == [op |-> "none", args |-> <<>>, ret |-> <<>>]

IdleIndex ==
    /\ arrays = <<>>
    /\ lookup = NoLookup

(***************************************************************************)
(* The Map class. An axes is [src, n]: src = "caller" for an axes the       *)
(* caller made, "plt" for one plt.axes made, "none" for None; a figure      *)
(* likewise.                                                               *)
(***************************************************************************)
NoAxes == [src |-> "none", n |-> 0]

NoFig == [src |-> "none", n |-> 0]

\* The axes the callers hand to init_axes.
CallerAxes == {[src |-> "caller", n |-> 1], [src |-> "caller", n |-> 2]}

\* A title is a sequence of pieces: text as written, or a replacement field {name}.
Lit(t) == [kind |-> "lit", s |-> t]

Field(name) == [kind |-> "field", s |-> name]

\* The fmt_kw argument: given = FALSE is None.
NoKw == [given |-> FALSE, kw |-> [k \in {} |-> ""]]

Kw(f) == [given |-> TRUE, kw |-> f]

\* title.format(**fmt_kw)
RECURSIVE FormatPieces(_, _)
FormatPieces(title, kw) ==
    IF title = <<>> THEN [raised |-> "none", value |-> <<>>]
    ELSE LET piece == Head(title)
             rest == FormatPieces(Tail(title), kw)
         IN  IF piece.kind = "field" /\ piece.s \notin DOMAIN kw
             THEN [raised |-> "KeyError", value |-> <<>>]
             ELSE IF rest.raised # "none" THEN rest
             ELSE [raised |-> "none",
                   value |-> <<IF piece.kind = "field" THEN kw[piece.s] ELSE piece.s>>
                                 \o rest.value]

Format(title, fmt_kw) ==
    IF ~fmt_kw.given THEN [raised |-> "TypeError", value |-> <<>>]
    ELSE FormatPieces(title, fmt_kw.kw)

\* What a Map method does: the exception, the value returned, Map.axes after
\* the call, the number of figures and the decorated axes.
MapOutcome(raised, ret, axes, nfig, deco) ==
    [raised |-> raised, ret |-> ret, axes |-> axes, figures |-> nfig, decorated |-> deco]

\* Mutant: init_axes always makes a figure and an axes of its own.
init_axes_always_new(axes) ==
    LET new == [src |-> "plt", n |-> figures + 1]
    IN  MapOutcome("none",
                   <<new, new, [axes |-> new, top_labels |-> FALSE, right_labels |-> FALSE]>>,
                   new, figures + 1, decorated \cup {new})

\* Map.init_axes(axes): the keyword arguments only style what is added.
init_axes(axes) ==
    LET fig == IF axes = NoAxes THEN [src |-> "plt", n |-> figures + 1] ELSE NoFig
        self_axes == IF axes = NoAxes THEN [src |-> "plt", n |-> figures + 1] ELSE axes
        glines == [axes |-> self_axes, top_labels |-> FALSE, right_labels |-> FALSE]
    IN  MapOutcome("none", <<fig, self_axes, glines>>, self_axes,
                   IF axes = NoAxes THEN figures + 1 ELSE figures,
                   decorated \cup {self_axes})

RcTitleSize == "large"

\* Map.set_title(title, fmt_kw=fmt_kw, **kwargs)
set_title(title, fmt_kw, kwargs) ==
    LET fontsize == IF "fontsize" \in DOMAIN kwargs THEN kwargs["fontsize"] ELSE RcTitleSize
        text == Format(title, fmt_kw)
    IN  IF map.axes = NoAxes
        THEN MapOutcome("AttributeError", <<>>, map.axes, figures, decorated)
        ELSE IF text.raised # "none"
        THEN MapOutcome(text.raised, <<>>, map.axes, figures, decorated)
        ELSE MapOutcome("none",
                        [kind |-> "text", axes |-> map.axes, text |-> text.value,
                         fontsize |-> fontsize],
                        map.axes, figures, decorated)

\* Mutant: the plot goes to pyplot's current axes, the last one pyplot made.
plot_on_current_axes(kind_, arrays_) ==
    IF figures = 0
    THEN MapOutcome("AttributeError", <<>>, map.axes, figures, decorated)
    ELSE MapOutcome("none",
                    [kind |-> kind_, axes |-> [src |-> "plt", n |-> figures],
                     arrays |-> arrays_],
                    map.axes, figures, decorated)

\* self.axes.<kind>(*arrays, **kwargs)
plot_on_axes(kind_, arrays_) ==
    IF map.axes = NoAxes
    THEN MapOutcome("AttributeError", <<>>, map.axes, figures, decorated)
    ELSE MapOutcome("none", [kind |-> kind_, axes |-> map.axes, arrays |-> arrays_],
                    map.axes, figures, decorated)

\* Map.plot_contourf(var_array)
plot_contourf(var_array) == plot_on_axes("contourf", <<map.longitude, map.latitude, var_array>>)

\* Map.plot_contour(var_array)
plot_contour(var_array) == plot_on_axes("contour", <<map.longitude, map.latitude, var_array>>)

\* array[::y_mesh, ::x_mesh]
Strided(g, y_mesh, x_mesh) ==
    [j \in 1 .. (NRows(g) + y_mesh - 1) \div y_mesh |->
        [i \in 1 .. (NCols(g) + x_mesh - 1) \div x_mesh |->
            g[(j - 1) * y_mesh + 1][(i - 1) * x_mesh + 1]]]

\* Map.plot_quiver(x_var_array, y_var_array, x_mesh=x_mesh, y_mesh=y_mesh); a mesh
\* of 0 stands for None as well, as "not x_mesh" takes both the same way.
plot_quiver(x_var_array, y_var_array, x_mesh, y_mesh) ==
    LET x_size == NCols(x_var_array)
        y_size == NRows(x_var_array)
        xm == IF x_mesh = 0 THEN x_size \div 50 ELSE x_mesh
        ym == IF y_mesh = 0 THEN y_size \div 50 ELSE y_mesh
    IN  IF map.axes = NoAxes
        THEN MapOutcome("AttributeError", <<>>, map.axes, figures, decorated)
        ELSE IF xm = 0 \/ ym = 0
        THEN MapOutcome("ValueError", <<>>, map.axes, figures, decorated)
        ELSE plot_on_axes("quiver",
                          <<Strided(map.longitude, ym, xm), Strided(map.latitude, ym, xm),
                            Strided(x_var_array, ym, xm), Strided(y_var_array, ym, xm)>>)

NoPlot == [op |-> "new", args |-> <<>>, raised |-> "none", ret |-> <<>>]

mapVars == <<map, figures, decorated, inited, plot>>

\* A Map on which nothing is called.
IdleMap ==
    /\ map = [longitude |-> LonA, latitude |-> LatA, axes |-> NoAxes]
    /\ figures = 0
    /\ decorated = {}
    /\ inited = NoAxes
    /\ plot = NoPlot

\* No script function has been called.
NoScript == [name |-> "none"]

scriptVars == <<script, pc, locals, effects>>

IdleScript ==
    /\ script = NoScript
    /\ pc = "idle"
    /\ locals = <<>>
    /\ effects = <<>>

(***************************************************************************)
(* The reader as a state machine                                           *)
(***************************************************************************)
NoCall == [op |-> "new", args |-> <<>>, raised |-> "none", ret |-> <<>>]

readerVars == <<kind, tsel, files, data, longitude, latitude, cur, call, before, opens>>

\* __init__(files[, day_index | time_step]): the state after a construction
\* that did not raise, so files[0] opens and holds the coordinates.
Init ==
    /\ kind \in Readers
    /\ tsel \in (IF kind = "MesoNH" THEN {0} ELSE TimeSteps)
    /\ files \in SeqsUpTo(FileNames, MaxFiles) \ {<<>>}
    /\ Disk[files[1]].ok
    /\ data = None
    /\ longitude = Disk[files[1]].variables[LonName(kind)]
    /\ latitude = Disk[files[1]].variables[LatName(kind)]
    /\ IdleIndex
    /\ IdleMap
    /\ IdleScript
    /\ cur = <<>>
    /\ call = NoCall
    /\ before = [files |-> files, data |-> data,
                 longitude |-> longitude, latitude |-> latitude]
    /\ opens = <<>>

\* What a call of a reader method leaves in the reader.
ReaderCall(op, args, o) ==
    /\ data' = o.data
    /\ call' = [op |-> op, args |-> args, raised |-> o.raised, ret |-> o.ret]
    /\ before' = [files |-> files, data |-> data,
                  longitude |-> longitude, latitude |-> latitude]
    /\ opens' = o.opens
    /\ longitude' = o.longitude
    /\ latitude' = o.latitude
    /\ UNCHANGED <<kind, tsel, files>>

Return(op, args, o) ==
    /\ ReaderCall(op, args, o)
    /\ UNCHANGED <<arrays, lookup, mapVars, scriptVars>>

GetData ==
    \E k \in (-Len(files) - 1) .. Len(files) :
        LET o == get_data(k)
        IN  /\ Return("get_data", <<k>>, o)
            /\ cur' = IF o.raised = "none" THEN <<PyIndex(k, Len(files))>> ELSE cur

GetVar ==
    \E c \in Calls :
        /\ Return("get_var", c, get_var(c[1], c[2]))
        /\ UNCHANGED cur

GetLimits ==
    \E c \in Calls :
        /\ Return("get_limits", c, get_limits(c[1], c[2]))
        /\ UNCHANGED cur

\* The arguments get_mean is called with: (index_i, index_j) at the centre, in a
\* corner and on an edge of the grid; t_range absent, empty, a list of valid
\* indices, and a list with an index past the end of the file list.
Points == {<<1, 1>>, <<0, 0>>, <<1, 2>>}

TRanges == {NoRange, Range(<<>>), Range(<<1, 0>>), Range(<<-1, MaxFiles + 1>>)}

Sizes == {1, 2}

GetMean ==
    /\ kind = "MesoNH"
    /\ \E p \in Points, c \in Calls, tr \in TRanges, s \in Sizes :
           /\ Return("get_mean", <<p[1], p[2], c[1], c[2], tr, s>>,
                     get_mean(p[1], p[2], c[1], c[2], tr, s))
           /\ UNCHANGED cur

Next == GetData \/ GetVar \/ GetLimits \/ GetMean

Spec == Init /\ [][Next]_vars

(***************************************************************************)
(* The index functions as a state machine: the arrays are drawn at the     *)
(* start and one of the functions is called on them. The functions are     *)
(* pure, so a second call on the same arrays would add nothing.            *)
(***************************************************************************)
\* A reader on which nothing is called.
IdleReader ==
    /\ kind = "MesoNH"
    /\ tsel = 0
    /\ files = <<"f1.nc">>
    /\ data = None
    /\ longitude = Disk[files[1]].variables[LonName(kind)]
    /\ latitude = Disk[files[1]].variables[LatName(kind)]
    /\ cur = <<>>
    /\ call = NoCall
    /\ before = [files |-> files, data |-> data,
                 longitude |-> longitude, latitude |-> latitude]
    /\ opens = <<>>

InitIndex ==
    /\ arrays \in Arrays \X Arrays
    /\ lookup = NoLookup
    /\ IdleReader
    /\ IdleMap
    /\ IdleScript

GetIndex ==
    /\ lookup = NoLookup
    /\ \E target \in Targets :
        /\ lookup' = [op |-> "get_index", args |-> <<target>>,
                      ret |-> get_index(arrays[1], target)]
        /\ UNCHANGED <<arrays, readerVars, mapVars, scriptVars>>

PlotsGetIndex ==
    /\ lookup = NoLookup
    /\ \E value \in Targets :
        /\ lookup' = [op |-> "plots.get_index", args |-> <<value>>,
                      ret |-> plots_get_index(arrays[1], value)]
        /\ UNCHANGED <<arrays, readerVars, mapVars, scriptVars>>

LonLatToIndex ==
    /\ lookup = NoLookup
    /\ \E lon \in Targets, lat \in Targets :
        /\ lookup' = [op |-> "lonlat_to_index", args |-> <<lon, lat>>,
                      ret |-> lonlat_to_index([longitude |-> arrays[1], latitude |-> arrays[2]],
                                              lon, lat)]
        /\ UNCHANGED <<arrays, readerVars, mapVars, scriptVars>>

NextIndex == GetIndex \/ PlotsGetIndex \/ LonLatToIndex

SpecIndex == InitIndex /\ [][NextIndex]_vars

(***************************************************************************)
(* The Map as a state machine                                              *)
(***************************************************************************)
\* Map(longitude, latitude)
InitMap ==
    /\ map \in [longitude : {LonA, LonB}, latitude : {LatA}, axes : {NoAxes}]
    /\ figures = 0
    /\ decorated = {}
    /\ inited = NoAxes
    /\ plot = NoPlot
    /\ IdleReader
    /\ IdleIndex
    /\ IdleScript

\* What a call of a Map method leaves in the Map and in pyplot.
MapCall(op, args, o) ==
    /\ map' = [map EXCEPT !.axes = o.axes]
    /\ figures' = o.figures
    /\ decorated' = o.decorated
    /\ inited' = IF op = "init_axes" /\ o.raised = "none" THEN o.ret[2] ELSE inited
    /\ plot' = [op |-> op, args |-> args, raised |-> o.raised, ret |-> o.ret]

MapReturn(op, args, o) ==
    /\ MapCall(op, args, o)
    /\ UNCHANGED <<readerVars, arrays, lookup, scriptVars>>

InitAxes ==
    \E axes \in CallerAxes \cup {NoAxes} :
        /\ axes = NoAxes => figures < MaxFigures
        /\ MapReturn("init_axes", <<axes>>, init_axes(axes))

Titles == {<<Lit("Title")>>, <<Lit("Run of "), Field("date")>>}

FmtKws == {NoKw, Kw([k \in {} |-> ""]), Kw([date |-> "2022-08-18"])}

Kwargs == {[k \in {} |-> ""], [fontsize |-> "small"]}

SetTitle ==
    \E title \in Titles, fmt_kw \in FmtKws, kwargs \in Kwargs :
        MapReturn("set_title", <<title, fmt_kw, kwargs>>, set_title(title, fmt_kw, kwargs))

PlotContourf ==
    \E var_array \in {G1, G2} :
        MapReturn("plot_contourf", <<var_array>>, plot_contourf(var_array))

PlotContour ==
    \E var_array \in {G1, G2} :
        MapReturn("plot_contour", <<var_array>>, plot_contour(var_array))

PlotQuiver ==
    \E mesh \in {0, 1, 2} :
        MapReturn("plot_quiver", <<G3, G4, mesh, mesh>>, plot_quiver(G3, G4, mesh, mesh))

NextMap == InitAxes \/ SetTitle \/ PlotContourf \/ PlotContour \/ PlotQuiver

SpecMap == InitMap /\ [][NextMap]_vars

(***************************************************************************)
(* Properties of the readers                                               *)
(***************************************************************************)
\* What the claims mean by "func applied, in the given order, to the named
\* variables of a file taken at time index t".
Expected(name, varnames, func, t) ==
    LET v(n) == Disk[name].variables[varnames[n]][t + 1]
    IN  IF func = "id" THEN v(1)
        ELSE [j \in 1 .. Len(v(1)) |-> [i \in 1 .. Len(v(1)[j]) |-> v(1)[j][i] - v(2)[j][i]]]

\* The time index the claims give each reader class.
ReaderTime == CASE kind = "MesoNH" -> 0
                [] kind = "Antilope" -> tsel
                [] kind = "Satellite" -> tsel

FileOrder == [k \in 1 .. Len(files) |-> k - 1]

IsPrefix(s, t) == Len(s) <= Len(t) /\ \A k \in 1 .. Len(s) : s[k] = t[k]

Returned(op) == call.op = op /\ call.raised = "none"

\* C1: a get_var that returns gives func applied, in the given order, to the
\* named variables of files[k] at the reader's time selection, k being the index
\* of the most recent successful get_data, whatever was called in between.
C1_GetVarReadsOpenFile ==
    Returned("get_var") =>
        /\ cur # <<>>
        /\ call.ret = Expected(files[cur[1] + 1], call.args[1], call.args[2], ReaderTime)

C1_Witness ==
    /\ Returned("get_var")
    /\ kind = "Antilope" /\ tsel = 1
    /\ call.args = <<<<"B", "A">>, "sub">>
    /\ cur = <<1>>
    /\ files[1] # files[2]

\* C2: a get_limits that returns gives (var_min, var_max), the smallest and the
\* largest value of func(...) over every cell of every file of the list: both are
\* finite, both are values of some file, and every value lies between them.
C2_LimitsAreGlobalExtrema ==
    Returned("get_limits") =>
        LET vals == UNION { { At(Expected(files[k], call.args[1], call.args[2], ReaderTime),
                                 c[1], c[2]) : c \in Cells(longitude) }
                            : k \in 1 .. Len(files) }
        IN  /\ call.ret[1].inf = 0 /\ call.ret[2].inf = 0
            /\ call.ret[1].v \in vals /\ call.ret[2].v \in vals
            /\ \A x \in vals : call.ret[1].v <= x /\ x <= call.ret[2].v

\* The extrema come from different files, and not from the first one alone.
C2_Witness ==
    /\ Returned("get_limits")
    /\ Len(files) = 2
    /\ call.args = <<<<"A", "B">>, "sub">>
    /\ call.ret[1].v < GridMin(Expected(files[1], call.args[1], call.args[2], ReaderTime))
    /\ call.ret[2].v = GridMax(Expected(files[1], call.args[1], call.args[2], ReaderTime))

\* The window the docstring of get_mean draws: the centre cell and the cells up
\* to size away in the four directions.
CentredSquare(index_i, index_j, size) ==
    (index_j - size .. index_j + size) \X (index_i - size .. index_i + size)

RECURSIVE SquareMeans(_, _, _, _, _, _)
SquareMeans(index_i, index_j, varnames, func, size, rest) ==
    IF rest = <<>> THEN <<>>
    ELSE LET g == Expected(FileAt(Head(rest)), varnames, func, 0)
         IN  <<WindowMean(g, CentredSquare(index_i, index_j, size))>>
                 \o SquareMeans(index_i, index_j, varnames, func, size, Tail(rest))

\* C3: a get_mean that returns, for a window that lies inside the grid, gives the
\* average over columns index_i-size..index_i+size and rows
\* index_j-size..index_j+size of the files of the time range.
C3_MeanOverCentredSquare ==
    (/\ Returned("get_mean")
     /\ CentredSquare(call.args[1], call.args[2], call.args[6]) \subseteq Cells(longitude))
        => RatEq(call.ret,
                 ListMean(SquareMeans(call.args[1], call.args[2], call.args[3], call.args[4],
                                      call.args[6], EffectiveRange(call.args[5]))))

\* C6: longitude and latitude are those of files[0], whatever has been called
\* and whichever file is open.
C6_GridIsThatOfFirstFile ==
    /\ longitude = Disk[files[1]].variables[LonName(kind)]
    /\ latitude = Disk[files[1]].variables[LatName(kind)]

\* A file on another grid is open.
C6_Witness ==
    /\ data # None
    /\ Disk[data].variables[LonName(kind)] # longitude
    /\ call.op = "get_limits"

\* C7: a get_limits, or a get_mean over its default range, that returns has
\* opened every file of the list once, in list order, whatever was called
\* before; one that raises has opened a prefix of that order.
C7_EveryFileOpenedInOrder ==
    LET whole == \/ call.op = "get_limits"
                 \/ /\ call.op = "get_mean"
                    /\ (~call.args[5].given \/ call.args[5].idx = <<>>)
    IN  /\ (whole /\ call.raised = "none") => opens = FileOrder
        /\ (whole /\ call.raised # "none") => IsPrefix(opens, FileOrder)

C7_Witness ==
    /\ Returned("get_mean")
    /\ ~call.args[5].given
    /\ Len(files) = 2
    /\ opens = <<0, 1>>
    /\ data = files[1]

\* The file indices a get_limits or get_mean goes through, in order, and
\* whether its work on the file at index k raises.
Pass == IF call.op = "get_limits" THEN FileOrder ELSE EffectiveRange(call.args[5])

FailsAt(k) ==
    \/ OpenRaises(k) # "none"
    \/ /\ call.op = "get_limits"
       /\ Compute(Disk[FileAt(k)], call.args[1], call.args[2], ReaderTime).raised # "none"
    \/ /\ call.op = "get_mean"
       /\ Compute(Disk[FileAt(k)], call.args[3], call.args[4], 0).raised # "none"

\* A get_limits or get_mean that raised stopped at the first file of its pass
\* that fails: the files before it were opened once each, none after it.
StoppedAtFirstFailure ==
    (call.op \in {"get_limits", "get_mean"} /\ call.raised # "none") =>
        \E m \in 1 .. Len(Pass) :
            /\ FailsAt(Pass[m])
            /\ \A k \in 1 .. m - 1 : ~FailsAt(Pass[k])
            /\ opens = [k \in 1 .. (IF OpenRaises(Pass[m]) = "IndexError" THEN m - 1 ELSE m)
                           |-> PyIndex(Pass[k], Len(files))]

\* C8: a call that raises leaves files, data, longitude and latitude as they
\* were before it, and a get_limits or get_mean that raises has stopped at the
\* first file that fails, without a second attempt and without going on to the
\* next file.
C8_FailureLeavesReaderUnchanged ==
    call.raised # "none" =>
        /\ files = before.files /\ data = before.data
        /\ longitude = before.longitude /\ latitude = before.latitude
        /\ StoppedAtFirstFailure

\* get_limits failed on the second file while another file was open.
C8_Witness ==
    /\ call.op = "get_limits"
    /\ call.raised = "OSError"
    /\ opens = <<0, 1>>
    /\ data # None

(***************************************************************************)
(* Properties of the index functions                                       *)
(***************************************************************************)
\* Cell d comes before cell c in row-major order.
Earlier(d, c) == d[1] < c[1] \/ (d[1] = c[1] /\ d[2] < c[2])

\* C4: get_index (of readers and of plots) returns a cell of the array whose
\* absolute difference to the target is the least of the whole array, and the
\* first such cell in row-major order.
C4_GetIndexIsFirstClosest ==
    lookup.op \in {"get_index", "plots.get_index"} =>
        LET array == arrays[1]
            target == lookup.args[1]
            dist(c) == Abs(target - At(array, c[1], c[2]))
            found == lookup.ret
        IN  /\ found \in Cells(array)
            /\ \A c \in Cells(array) : dist(found) <= dist(c)
            /\ \A c \in Cells(array) : dist(c) = dist(found) => ~Earlier(c, found)

\* Cells [0, 1] and [1, 0] are equally close and [0, 0] is not: the one that
\* comes first in row-major order is returned.
C4_Witness ==
    /\ lookup.op = "get_index"
    /\ lookup.ret = <<0, 1>>
    /\ Abs(lookup.args[1] - arrays[1][1][2]) = Abs(lookup.args[1] - arrays[1][2][1])
    /\ Abs(lookup.args[1] - arrays[1][1][2]) < Abs(lookup.args[1] - arrays[1][1][1])

\* C5: lonlat_to_index returns (i, j), i along the second axis and j along the
\* first, of a cell whose (longitude[j, i], latitude[j, i]) is at the least
\* Euclidean distance from (lon, lat), and the first such cell in row-major order.
C5_LonLatToIndexIsNearestCell ==
    lookup.op = "lonlat_to_index" =>
        LET lon == lookup.args[1]
            lat == lookup.args[2]
            dist2(c) == (At(arrays[1], c[1], c[2]) - lon) * (At(arrays[1], c[1], c[2]) - lon)
                            + (At(arrays[2], c[1], c[2]) - lat) * (At(arrays[2], c[1], c[2]) - lat)
            found == <<lookup.ret[2], lookup.ret[1]>>
        IN  /\ found \in Cells(arrays[1])
            /\ \A c \in Cells(arrays[1]) : dist2(found) <= dist2(c)
            /\ \A c \in Cells(arrays[1]) : dist2(c) = dist2(found) => ~Earlier(c, found)

\* The nearest cell is off the diagonal, and a later cell is as near.
C5_Witness ==
    /\ lookup.op = "lonlat_to_index"
    /\ lookup.ret = <<1, 0>>
    /\ <<arrays[1][1][2], arrays[2][1][2]>> # <<arrays[1][2][2], arrays[2][2][2]>>
    /\ (arrays[1][1][2] - lookup.args[1]) * (arrays[1][1][2] - lookup.args[1])
           + (arrays[2][1][2] - lookup.args[2]) * (arrays[2][1][2] - lookup.args[2])
         = (arrays[1][2][2] - lookup.args[1]) * (arrays[1][2][2] - lookup.args[1])
           + (arrays[2][2][2] - lookup.args[2]) * (arrays[2][2][2] - lookup.args[2])

(***************************************************************************)
(* Properties of the Map                                                   *)
(***************************************************************************)
\* C9: init_axes returns (fig, axes, glines): given an axes, fig is None and
\* Map.axes is that axes; given none, fig is a new figure and Map.axes a new axes.
\* A plot_contourf, plot_contour or plot_quiver that returns has drawn on the
\* axes of the most recent init_axes, which carries the map decorations.
C9_PlotsDrawOnInitAxes ==
    /\ plot.op = "init_axes" =>
           /\ plot.raised = "none"
           /\ plot.ret[2] = map.axes /\ plot.ret[3].axes = map.axes
           /\ map.axes # NoAxes
           /\ plot.args[1] # NoAxes => (plot.ret[1] = NoFig /\ map.axes = plot.args[1])
           /\ plot.args[1] = NoAxes =>
                  (plot.ret[1] = [src |-> "plt", n |-> figures]
                       /\ map.axes = [src |-> "plt", n |-> figures])
    /\ (plot.op \in {"plot_contourf", "plot_contour", "plot_quiver"} /\ plot.raised = "none")
           => (inited # NoAxes /\ plot.ret.axes = inited /\ inited \in decorated)

\* A plot on a caller's axes after pyplot has made another one.
C9_Witness ==
    /\ plot.op = "plot_quiver"
    /\ plot.raised = "none"
    /\ figures = 1
    /\ map.axes = [src |-> "caller", n |-> 2]

\* C10: set_title called without fmt_kw on a Map whose axes is set returns the
\* Text, with the title as written, and does not raise.
C10_SetTitleWithoutFmtKw ==
    (plot.op = "set_title" /\ ~plot.args[2].given /\ map.axes # NoAxes) =>
        /\ plot.raised = "none"
        /\ plot.ret.text = [k \in 1 .. Len(plot.args[1]) |-> plot.args[1][k].s]

\* The averages get_mean takes over its window in the files at the indices of
\* rest, one per file.
RECURSIVE RangeMeans(_, _, _, _, _, _)
RangeMeans(index_i, index_j, varnames, func, size, rest) ==
    IF rest = <<>> THEN <<>>
    ELSE LET g == Expected(FileAt(Head(rest)), varnames, func, 0)
         IN  <<WindowMean(g, Window(g, index_i, index_j, size))>>
                 \o RangeMeans(index_i, index_j, varnames, func, size, Tail(rest))

\* C11: a get_mean that returns has averaged over every file of the list, in
\* order, when t_range is not given, and over exactly the files at the indices
\* of t_range, in order, when it is given: those files are the ones it opened,
\* and its result is the mean of their window averages.
C11_MeanOverGivenRange ==
    Returned("get_mean") =>
        LET over == IF call.args[5].given THEN call.args[5].idx ELSE FileOrder
        IN  /\ opens = [k \in 1 .. Len(over) |-> PyIndex(over[k], Len(files))]
            /\ IF over = <<>> THEN IsNaN(call.ret)
               ELSE RatEq(call.ret,
                          ListMean(RangeMeans(call.args[1], call.args[2], call.args[3],
                                              call.args[4], call.args[6], over)))

\* C20: get_limits and get_mean, whether they return or raise, leave the open
\* file as it was: data is what it was before the call, the file of the most
\* recent successful get_data (None when there was none), and a get_var issued
\* next gives what it would have given before the call.
C20_LimitsAndMeanKeepOpenFile ==
    call.op \in {"get_limits", "get_mean"} =>
        /\ data = before.data
        /\ data = IF cur = <<>> THEN None ELSE files[cur[1] + 1]
        /\ \A c \in Calls :
               LET o == get_var(c[1], c[2])
               IN  IF before.data = None THEN o.raised = "AttributeError"
                   ELSE o.raised = "none" =>
                            o.ret = Expected(before.data, c[1], c[2], ReaderTime)

\* get_limits went through two different files while the first one was open.
C20_Witness ==
    /\ Returned("get_limits")
    /\ Len(files) = 2 /\ files[1] # files[2]
    /\ cur = <<0>>
    /\ opens = <<0, 1>>
    /\ before.data = files[1]

(***************************************************************************)
(* plot_netcdf.get_limits, the function of the script that goes through    *)
(* the module's list FILES. disk is what Dataset() finds under each name.  *)
(***************************************************************************)
\* The loop of plot_netcdf.get_limits from the file at 0-based index i on; it
\* calls func(*args) once for the minimum and once more for the maximum.
RECURSIVE plot_netcdf_loop(_, _, _, _, _, _, _)
plot_netcdf_loop(disk, FILES, varnames, func, i, var_min, var_max) ==
    IF i >= Len(FILES) THEN [raised |-> "none", ret |-> <<var_min, var_max>>]
    ELSE IF ~disk[FILES[i + 1]].ok THEN [raised |-> "OSError", ret |-> <<>>]
    ELSE LET args == ReadArgs(disk[FILES[i + 1]], varnames, 0, <<>>)
         IN  IF args.raised # "none" THEN [raised |-> args.raised, ret |-> <<>>]
             ELSE LET first == ApplyFunc(func, args.value)
                      second == ApplyFunc(func, args.value)
                  IN  IF first.raised # "none" THEN [raised |-> first.raised, ret |-> <<>>]
                      ELSE LET current_min == GridMin(first.value)
                               current_max == GridMax(second.value)
                           IN  plot_netcdf_loop(disk, FILES, varnames, func, i + 1,
                                   IF var_min.inf = 1 \/ current_min < var_min.v
                                   THEN Fin(current_min) ELSE var_min,
                                   IF var_max.inf = -1 \/ current_max > var_max.v
                                   THEN Fin(current_max) ELSE var_max)

\* plot_netcdf.get_limits(*varnames, func=func)
plot_netcdf_get_limits(disk, FILES, varnames, func) ==
    plot_netcdf_loop(disk, FILES, varnames, func, 0, PosInf, NegInf)

\* The disk whose files hold, at time index 0, what the files of Disk hold at
\* time index t.
DiskAtTime(t) ==
    [name \in FileNames |->
        [ok |-> Disk[name].ok,
         variables |-> [v \in DOMAIN Disk[name].variables |->
                           IF v \in {"A", "B"} THEN <<Disk[name].variables[v][t + 1]>>
                           ELSE Disk[name].variables[v]]]]

\* C19: on the reader's file list and the arguments of the call, the get_limits
\* of plot_netcdf returns or raises what MesoNH.get_limits does, and what
\* Antilope.get_limits and Satellite.get_limits do once its time index 0 is
\* replaced by the reader's day_index or time_step.
C19_StandaloneLimitsAgree ==
    call.op = "get_limits" =>
        LET alone == plot_netcdf_get_limits(
                         IF kind = "MesoNH" THEN Disk ELSE DiskAtTime(tsel),
                         files, call.args[1], call.args[2])
        IN  /\ call.raised = alone.raised
            /\ call.ret = alone.ret

\* The limits of B - A over two different files, on a MesoNH reader.
C19_Witness ==
    /\ Returned("get_limits")
    /\ kind = "MesoNH"
    /\ Len(files) = 2 /\ files[1] # files[2]
    /\ call.args = <<<<"B", "A">>, "sub">>
    /\ call.ret[1].v < 0 /\ call.ret[2].v > 0

(***************************************************************************)
(* The script functions. A script function runs statement by statement:    *)
(* pc names the statement it is at, locals holds its local variables, and  *)
(* each step is one call of a reader or Map method, or the statements up   *)
(* to the next such call. Nothing else runs in between.                    *)
(***************************************************************************)
\* A step of a script function that goes to statement label with the locals l.
Goto(label, l) ==
    /\ pc' = label
    /\ locals' = l
    /\ UNCHANGED <<script, arrays, lookup>>

\* A step in which the script function calls a method of the reader.
ReaderStep(op, args, o) ==
    /\ ReaderCall(op, args, o)
    /\ cur' = IF op = "get_data" /\ o.raised = "none"
              THEN <<PyIndex(args[1], Len(files))>> ELSE cur
    /\ UNCHANGED <<mapVars, effects>>

\* A step in which the script function calls a method of the Map.
MapStep(op, args, o) ==
    /\ MapCall(op, args, o)
    /\ UNCHANGED <<readerVars, effects>>

\* np.zeros(array.shape), a + b, a - b and a * k on 2-D arrays
Zeros(g) == [j \in 1 .. NRows(g) |-> [i \in 1 .. NCols(g) |-> 0]]

GridAdd(a, b) == [j \in 1 .. NRows(a) |-> [i \in 1 .. NCols(a) |-> a[j][i] + b[j][i]]]

GridSub(a, b) == [j \in 1 .. NRows(a) |-> [i \in 1 .. NCols(a) |-> a[j][i] - b[j][i]]]

GridTimes(a, k) == [j \in 1 .. NRows(a) |-> [i \in 1 .. NCols(a) |-> a[j][i] * k]]

(***************************************************************************)
(* plot_precip.py: plot_precip_inprr and plot_precip_acprr                 *)
(***************************************************************************)
\* for hour in range(1, 361, 60)
inprr_hours == PyRange(1, SimLength + 1, 60)

\* for time_index in range(hour, hour + 59)
inprr_times(hour) == PyRange(hour, hour + 59, 1)

\* for hour in range(60, 360, 60)
acprr_hours == PyRange(60, SimLength, 60)

\* Mutant: the two files of plot_precip_acprr taken the other way round.
acprr_hourly_swapped(acprr_0, acprr_60) == GridSub(acprr_60, acprr_0)

\* acprr_hourly = acprr_0 - acprr_60
acprr_hourly(acprr_0, acprr_60) == GridSub(acprr_0, acprr_60)

\* The locals of the two functions before the first statement.
PrecipLocals(hours) ==
    [hours |-> hours, hour |-> 0, times |-> <<>>, summed |-> <<>>, inprr |-> <<>>,
     acprr_60 |-> <<>>, acprr_0 |-> <<>>, acprr_hourly |-> <<>>,
     date |-> 0, axes |-> NoAxes]

\* reader = get_mesonh(dx); my_map = Map(reader.longitude, reader.latitude)
InitPrecip ==
    /\ kind = "MesoNH"
    /\ tsel = 0
    /\ files \in {MesoNHFiles[dx] : dx \in Resolutions}
    /\ data = None
    /\ longitude = Disk[files[1]].variables[LonName(kind)]
    /\ latitude = Disk[files[1]].variables[LatName(kind)]
    /\ cur = <<>>
    /\ call = NoCall
    /\ before = [files |-> files, data |-> data,
                 longitude |-> longitude, latitude |-> latitude]
    /\ opens = <<>>
    /\ IdleIndex
    /\ map = [longitude |-> longitude, latitude |-> latitude, axes |-> NoAxes]
    /\ figures = 0
    /\ decorated = {}
    /\ inited = NoAxes
    /\ plot = NoPlot
    /\ IdleScript

\* plot_precip_inprr(mesonh, precip_map, resol_dx=resol_dx, stations=stations)
\* plot_precip_acprr(mesonh, precip_map, resol_dx=resol_dx, stations=stations)
CallPlotPrecip ==
    /\ pc = "idle"
    /\ \E name \in {"plot_precip_inprr", "plot_precip_acprr"},
          resol_dx \in Resolutions, stations \in BOOLEAN :
           /\ script' = [name |-> name, resol_dx |-> resol_dx, stations |-> stations]
           /\ locals' = PrecipLocals(IF name = "plot_precip_inprr"
                                     THEN inprr_hours ELSE acprr_hours)
    /\ pc' = "for_hour"
    /\ UNCHANGED <<readerVars, arrays, lookup, mapVars, effects>>

\* for hour in ...: the next hour, or the end of the function
PrecipForHour ==
    /\ pc = "for_hour"
    /\ IF locals.hours = <<>> THEN Goto("done", locals)
       ELSE LET hour == Head(locals.hours)
                l == [locals EXCEPT !.hours = Tail(@), !.hour = hour]
            IN  IF script.name = "plot_precip_inprr"
                THEN Goto(IF inprr_times(hour) = <<>> THEN "init_axes" ELSE "get_data",
                          [l EXCEPT !.inprr = Zeros(longitude),
                                    !.times = inprr_times(hour),
                                    !.summed = <<>>])
                ELSE Goto("get_data_60", l)
    /\ UNCHANGED <<readerVars, mapVars, effects>>

\* mesonh.get_data(time_index)
InprrGetData ==
    /\ pc = "get_data"
    /\ LET time_index == Head(locals.times)
           o == get_data(time_index)
       IN  /\ ReaderStep("get_data", <<time_index>>, o)
           /\ Goto(IF o.raised = "none" THEN "get_var" ELSE "raised",
                   [locals EXCEPT !.times = Tail(@)])

\* inprr += mesonh.get_var("INPRR", func=lambda x: x * 60)
InprrGetVar ==
    /\ pc = "get_var"
    /\ LET o == get_var(<<"INPRR">>, "times60")
       IN  /\ ReaderStep("get_var", <<<<"INPRR">>, "times60">>, o)
           /\ IF o.raised # "none" THEN Goto("raised", locals)
              ELSE Goto(IF locals.times = <<>> THEN "init_axes" ELSE "get_data",
                        [locals EXCEPT !.inprr = GridAdd(@, o.ret),
                                       !.summed = Append(@, cur[1])])

\* mesonh.get_data(hour - 60)
AcprrGetData60 ==
    /\ pc = "get_data_60"
    /\ LET o == get_data(locals.hour - 60)
       IN  /\ ReaderStep("get_data", <<locals.hour - 60>>, o)
           /\ Goto(IF o.raised = "none" THEN "get_var_60" ELSE "raised", locals)

\* acprr_60 = mesonh.get_var("ACPRR")
AcprrGetVar60 ==
    /\ pc = "get_var_60"
    /\ LET o == get_var(<<"ACPRR">>, "id")
       IN  /\ ReaderStep("get_var", <<<<"ACPRR">>, "id">>, o)
           /\ IF o.raised # "none" THEN Goto("raised", locals)
              ELSE Goto("get_data_0", [locals EXCEPT !.acprr_60 = o.ret])

\* mesonh.get_data(hour)
AcprrGetData0 ==
    /\ pc = "get_data_0"
    /\ LET o == get_data(locals.hour)
       IN  /\ ReaderStep("get_data", <<locals.hour>>, o)
           /\ Goto(IF o.raised = "none" THEN "get_var_0" ELSE "raised", locals)

\* acprr_0 = mesonh.get_var("ACPRR"); acprr_hourly = acprr_0 - acprr_60
AcprrGetVar0 ==
    /\ pc = "get_var_0"
    /\ LET o == get_var(<<"ACPRR">>, "id")
       IN  /\ ReaderStep("get_var", <<<<"ACPRR">>, "id">>, o)
           /\ IF o.raised # "none" THEN Goto("raised", locals)
              ELSE Goto("init_axes",
                        [locals EXCEPT !.acprr_0 = o.ret,
                                       !.acprr_hourly = acprr_hourly(o.ret, locals.acprr_60)])

\* date = ... + timedelta(seconds=float(mesonh.data.variables["time"][0]))
\* axes = precip_map.init_axes(fig_kw=...)[1]
PrecipInitAxes ==
    /\ pc = "init_axes"
    /\ script.name \in {"plot_precip_inprr", "plot_precip_acprr"}
    /\ IF data = None
       THEN /\ Goto("raised", locals)
            /\ UNCHANGED <<readerVars, mapVars, effects>>
       ELSE LET o == init_axes(NoAxes)
            IN  /\ MapStep("init_axes", <<NoAxes>>, o)
                /\ Goto("plot_contourf",
                        [locals EXCEPT !.date = ReadVar(Disk[data], "time", 0).value,
                                       !.axes = o.ret[2]])

\* contourf = precip_map.plot_contourf(inprr * 1000, ...), or acprr_hourly * 1000
PrecipContourf ==
    /\ pc = "plot_contourf"
    /\ script.name \in {"plot_precip_inprr", "plot_precip_acprr"}
    /\ LET field == GridTimes(IF script.name = "plot_precip_inprr"
                              THEN locals.inprr ELSE locals.acprr_hourly, 1000)
           o == plot_contourf(field)
       IN  /\ MapStep("plot_contourf", <<field>>, o)
           /\ Goto(IF o.raised = "none" THEN "savefig" ELSE "raised", locals)

\* axes.set_title(...); plt.savefig(f"inprr_{date}_{resol_dx}m.png"), or
\* f"acprr_hourly_{date}_{resol_dx}m.png": the figure is the current one, the
\* one the last init_axes made.
PrecipSavefig ==
    /\ pc = "savefig"
    /\ script.name \in {"plot_precip_inprr", "plot_precip_acprr"}
    /\ effects' = Append(effects,
                         [file |-> IF script.name = "plot_precip_inprr"
                                   THEN "inprr" ELSE "acprr_hourly",
                          date |-> locals.date,
                          resol_dx |-> script.resol_dx,
                          figure |-> figures,
                          stations |-> script.stations,
                          open_file |-> data,
                          drawn |-> plot.ret])
    /\ Goto("for_hour", locals)
    /\ UNCHANGED <<readerVars, mapVars>>

NextPrecip ==
    \/ CallPlotPrecip
    \/ PrecipForHour
    \/ InprrGetData
    \/ InprrGetVar
    \/ AcprrGetData60
    \/ AcprrGetVar60
    \/ AcprrGetData0
    \/ AcprrGetVar0
    \/ PrecipInitAxes
    \/ PrecipContourf
    \/ PrecipSavefig

SpecPrecip == InitPrecip /\ [][NextPrecip]_vars

(***************************************************************************)
(* Properties of plot_precip                                               *)
(***************************************************************************)
\* The sum of INPRR * 60 over the files at the 0-based indices of idx.
RECURSIVE SumInprr(_)
SumInprr(idx) ==
    IF idx = <<>> THEN Zeros(longitude)
    ELSE GridAdd(GridTimes(Disk[files[Head(idx) + 1]].variables["INPRR"][1], 60),
                 SumInprr(Tail(idx)))

\* C17: when plot_precip_inprr has summed an hour and goes on to plot it, it
\* has added INPRR x 60 of 60 consecutive files, the one-minute files of that
\* hour, and holds their sum.
C17_InprrSumsSixtyFiles ==
    (script.name = "plot_precip_inprr" /\ pc = "init_axes") =>
        /\ Len(locals.summed) = 60
        /\ \A n \in 1 .. Len(locals.summed) - 1 :
               locals.summed[n + 1] = locals.summed[n] + 1
        /\ locals.inprr = SumInprr(locals.summed)

\* C18: plot_precip_acprr saves one figure for each hour = 60, 120, ..., 300, the
\* multiples of 60 that index a file of the 360-file list, in that order; the
\* figure of an hour shows (ACPRR of files[hour] - ACPRR of files[hour - 60])
\* x 1000, and from the moment it is dated to the moment it is saved the open
\* file is files[hour], so its date is the time of that file.
C18_AcprrHourlyDifference ==
    script.name = "plot_precip_acprr" =>
        /\ \A k \in 1 .. Len(effects) :
               LET hour == 60 * k
                   acprr(n) == Disk[files[n + 1]].variables["ACPRR"][1]
               IN  /\ effects[k].file = "acprr_hourly"
                   /\ effects[k].drawn.arrays[3]
                          = GridTimes(GridSub(acprr(hour), acprr(hour - 60)), 1000)
                   /\ effects[k].open_file = files[hour + 1]
                   /\ effects[k].date = Disk[files[hour + 1]].variables["time"][1]
        /\ pc \in {"init_axes", "plot_contourf", "savefig"} =>
               /\ locals.hour = 60 * (Len(effects) + 1)
               /\ data = files[locals.hour + 1]
        /\ pc = "plot_contourf" => locals.date = Disk[files[locals.hour + 1]].variables["time"][1]
        /\ pc = "done" => Len(effects) = (SimLength \div 60) - 1

\* The five figures are saved, and the rain of the last hour plotted is not
\* that of the first.
C18_Witness ==
    /\ script.name = "plot_precip_acprr"
    /\ pc = "done"
    /\ Len(effects) = 5
    /\ effects[5].open_file = files[301]
    /\ effects[5].drawn.arrays[3] # effects[1].drawn.arrays[3]

(***************************************************************************)
(* plot_station.py: get_wind10 and get_pressure                            *)
(***************************************************************************)
\* mesonh.get_stats(index_i, index_j, *varnames, func=func, t_range=t_range,
\* size=size): the method the two functions call. It returns (limits, mean,
\* std); each is kept as the statistic it is, of what and over which files.
get_stats(index_i, index_j, varnames, func, t_range, size) ==
    LET of == [index_i |-> index_i, index_j |-> index_j, varnames |-> varnames,
               func |-> func, t_range |-> t_range, size |-> size]
    IN  <<[stat |-> "limits", of |-> of], [stat |-> "mean", of |-> of],
          [stat |-> "std", of |-> of]>>

\* The positions the two functions are called with.
StationLons == {10, 21}

StationLats == {40, 62}

StationLocals ==
    [size |-> 0, i |-> 0, j |-> 0, times |-> <<>>, values |-> <<>>, values_std |-> <<>>,
     ret |-> <<>>]

InitStation ==
    /\ IdleReader
    /\ IdleIndex
    /\ IdleMap
    /\ IdleScript

\* get_wind10(lon, lat, resol_dx), get_pressure(lon, lat, resol_dx)
CallStation ==
    /\ pc = "idle"
    /\ \E name \in {"get_wind10", "get_pressure"}, lon \in StationLons,
          lat \in StationLats, resol_dx \in Resolutions :
           script' = [name |-> name, lon |-> lon, lat |-> lat, resol_dx |-> resol_dx]
    /\ locals' = StationLocals
    /\ pc' = "get_mesonh"
    /\ UNCHANGED <<readerVars, arrays, lookup, mapVars, effects>>

\* mesonh = get_mesonh(resol_dx); size = 1000 // resol_dx
StationGetMesonh ==
    /\ pc = "get_mesonh"
    /\ kind' = "MesoNH"
    /\ tsel' = 0
    /\ files' = MesoNHFiles[script.resol_dx]
    /\ data' = None
    /\ longitude' = Disk[files'[1]].variables[LonName("MesoNH")]
    /\ latitude' = Disk[files'[1]].variables[LatName("MesoNH")]
    /\ cur' = <<>>
    /\ call' = NoCall
    /\ before' = [files |-> files', data |-> data',
                  longitude |-> longitude', latitude |-> latitude']
    /\ opens' = <<>>
    /\ Goto("lonlat_to_index", [locals EXCEPT !.size = 1000 \div script.resol_dx])
    /\ UNCHANGED <<mapVars, effects>>

\* i, j = lonlat_to_index(mesonh, lon, lat); for time in range(60, len(mesonh.files) + 1, 6)
\* (get_wind10), for time in range(1, len(mesonh.files) + 1, 6) (get_pressure)
StationLonLatToIndex ==
    /\ pc = "lonlat_to_index"
    /\ LET ij == lonlat_to_index([longitude |-> longitude, latitude |-> latitude],
                                 script.lon, script.lat)
       IN  Goto("get_stats",
                [locals EXCEPT !.i = ij[1], !.j = ij[2],
                               !.times = PyRange(IF script.name = "get_wind10" THEN 60 ELSE 1,
                                                 Len(files) + 1, 6)])
    /\ UNCHANGED <<readerVars, mapVars, effects>>

\* limits, mean, std = mesonh.get_stats(...); the two appends; after the last
\* time, return wind10, wind10_std (return pressure, pressure_std)
StationGetStats ==
    /\ pc = "get_stats"
    /\ IF locals.times = <<>>
       THEN Goto("done", [locals EXCEPT !.ret = [type |-> "tuple",
                                                 items |-> <<locals.values, locals.values_std>>]])
       ELSE LET time == Head(locals.times)
                s == IF script.name = "get_wind10"
                     THEN get_stats(locals.i, locals.j, <<"WIND10">>, "times3.6",
                                    PyRange(time - 11, time, 1), locals.size)
                     ELSE get_stats(locals.i, locals.j, <<"MSLP">>, "id",
                                    <<time>>, locals.size)
            IN  Goto("get_stats",
                     [locals EXCEPT !.times = Tail(@),
                                    !.values = Append(@, s[2]),
                                    !.values_std = Append(@, s[3])])
    /\ UNCHANGED <<readerVars, mapVars, effects>>

NextStation == CallStation \/ StationGetMesonh \/ StationLonLatToIndex \/ StationGetStats

SpecStation == InitStation /\ [][NextStation]_vars

(***************************************************************************)
(* Properties of plot_station                                              *)
(***************************************************************************)
\* C14: get_wind10 returns a list with one value for each hour of the
\* simulation, the k-th being the average of WIND10 over the ten files, one a
\* minute, before hour k.
C14_Wind10OnePerHour ==
    (script.name = "get_wind10" /\ pc = "done") =>
        LET wind10 == IF locals.ret.type = "list" THEN locals.ret.items
                      ELSE locals.ret.items[1]
        IN  /\ locals.ret.type = "list"
            /\ Len(wind10) = SimLength \div 60
            /\ \A k \in 1 .. Len(wind10) :
                   /\ wind10[k].stat = "mean"
                   /\ wind10[k].of.varnames = <<"WIND10">>
                   /\ wind10[k].of.t_range = PyRange(60 * k - 10, 60 * k, 1)

\* A grid wide enough to hold the window of every resolution around its centre.
WideGrid == [j \in 1 .. 9 |-> [i \in 1 .. 9 |-> 0]]

\* The number of cells along a side of the window the reader averages over
\* when it is given size, away from the edges of the grid.
SideCells(size) == Cardinality({c[2] : c \in Window(WideGrid, 4, 4, size)})

\* C15: once get_wind10 or get_pressure has computed size = 1000 // DX, the
\* square the reader averages over with that size has a side of 3 x DX metres.
C15_SquareSideIsThreeDX ==
    (script.name \in {"get_wind10", "get_pressure"} /\ pc \in {"get_stats", "done"}) =>
        SideCells(locals.size) * script.resol_dx = 3 * script.resol_dx

(***************************************************************************)
(* plot_antilope.py: plot_antilope                                         *)
(***************************************************************************)
\* The zoom values plot_antilope is called with: the three it accepts, the
\* empty string and a name it does not know.
Zooms == {"all", "corsica", "mesonh", "", "europe"}

\* Mutant: a zoom that is not recognised plots all the domain.
manage_extent_falls_back(zoom) ==
    IF zoom = "corsica" THEN [raised |-> "none", extent |-> "corsica"]
    ELSE IF zoom = "mesonh" THEN [raised |-> "none", extent |-> "mesonh"]
    ELSE [raised |-> "none", extent |-> "domain"]

\* if zoom == "corsica": axes.set_extent(...) elif zoom == "mesonh": ...
\* elif zoom != "all": raise ValueError(...). The extent is "domain", that of
\* the whole ANTILOPE data, until set_extent is called.
manage_extent(zoom) ==
    IF zoom = "corsica" THEN [raised |-> "none", extent |-> "corsica"]
    ELSE IF zoom = "mesonh" THEN [raised |-> "none", extent |-> "mesonh"]
    ELSE IF zoom # "all" THEN [raised |-> "ValueError", extent |-> "domain"]
    ELSE [raised |-> "none", extent |-> "domain"]

\* int(antilope.data["time"][17])
antilope_time ==
    IF data = None THEN [raised |-> "TypeError", value |-> <<>>]
    ELSE IF "time" \notin DOMAIN Disk[data].variables
    THEN [raised |-> "IndexError", value |-> <<>>]
    ELSE ReadVar(Disk[data], "time", 17)

AntilopeLocals ==
    [closed |-> 0, date |-> <<>>, axes |-> NoAxes, extent |-> "domain", title |-> <<>>,
     err |-> "none"]

\* reader = Antilope(files, day_index); my_map = Map(reader.longitude, reader.latitude)
InitAntilope ==
    /\ kind = "Antilope"
    /\ tsel \in TimeSteps
    /\ files \in SeqsUpTo(FileNames, MaxFiles) \ {<<>>}
    /\ Disk[files[1]].ok
    /\ data = None
    /\ longitude = Disk[files[1]].variables[LonName(kind)]
    /\ latitude = Disk[files[1]].variables[LatName(kind)]
    /\ cur = <<>>
    /\ call = NoCall
    /\ before = [files |-> files, data |-> data,
                 longitude |-> longitude, latitude |-> latitude]
    /\ opens = <<>>
    /\ IdleIndex
    /\ map = [longitude |-> longitude, latitude |-> latitude, axes |-> NoAxes]
    /\ figures = 0
    /\ decorated = {}
    /\ inited = NoAxes
    /\ plot = NoPlot
    /\ IdleScript

\* reader.get_data(index), which the caller issues before plot_antilope
AntilopeGetData ==
    /\ pc = "idle"
    /\ call = NoCall
    /\ \E k \in 0 .. Len(files) - 1 : ReaderStep("get_data", <<k>>, get_data(k))
    /\ UNCHANGED <<script, pc, locals, arrays, lookup>>

\* plot_antilope(index, antilope, radar_map, zoom=zoom, stations=stations)
CallPlotAntilope ==
    /\ pc = "idle"
    /\ \E zoom \in Zooms, stations \in BOOLEAN :
           script' = [name |-> "plot_antilope", index |-> 6, zoom |-> zoom,
                      stations |-> stations]
    /\ locals' = AntilopeLocals
    /\ pc' = "date"
    /\ UNCHANGED <<readerVars, arrays, lookup, mapVars, effects>>

\* plt.close("all"); date = datetime(...index...) + timedelta(hours=int(antilope.data["time"][17]))
AntilopeDate ==
    /\ pc = "date"
    /\ script.name = "plot_antilope"
    /\ LET t == antilope_time
       IN  IF t.raised # "none"
           THEN Goto("raised", [locals EXCEPT !.closed = figures, !.err = t.raised])
           ELSE Goto("init_axes", [locals EXCEPT !.closed = figures,
                                                 !.date = <<script.index, t.value>>])
    /\ UNCHANGED <<readerVars, mapVars, effects>>

\* axes = radar_map.init_axes(fig_kw=...)[1]
AntilopeInitAxes ==
    /\ pc = "init_axes"
    /\ script.name = "plot_antilope"
    /\ LET o == init_axes(NoAxes)
       IN  /\ MapStep("init_axes", <<NoAxes>>, o)
           /\ Goto("set_extent", [locals EXCEPT !.axes = o.ret[2]])

\* The zoom; if stations: all_stations_on_axes(axes); axes.set_title(...)
AntilopeSetExtent ==
    /\ pc = "set_extent"
    /\ LET m == manage_extent(script.zoom)
       IN  IF m.raised # "none" THEN Goto("raised", [locals EXCEPT !.err = m.raised])
           ELSE Goto("get_var", [locals EXCEPT !.extent = m.extent, !.title = locals.date])
    /\ UNCHANGED <<readerVars, mapVars, effects>>

\* antilope.get_var("prec")
AntilopeGetVar ==
    /\ pc = "get_var"
    /\ script.name = "plot_antilope"
    /\ LET o == get_var(<<"prec">>, "id")
       IN  /\ ReaderStep("get_var", <<<<"prec">>, "id">>, o)
           /\ IF o.raised # "none" THEN Goto("raised", [locals EXCEPT !.err = o.raised])
              ELSE Goto("plot_contourf", locals)

\* contourf = radar_map.plot_contourf(antilope.get_var("prec"), ...); the colorbar
AntilopeContourf ==
    /\ pc = "plot_contourf"
    /\ script.name = "plot_antilope"
    /\ LET o == plot_contourf(call.ret)
       IN  /\ MapStep("plot_contourf", <<call.ret>>, o)
           /\ IF o.raised # "none" THEN Goto("raised", [locals EXCEPT !.err = o.raised])
              ELSE Goto("savefig", locals)

\* if zoom: plt.savefig(f"antilope_zoom_{date}.png") else: plt.savefig(f"antilope_{date}.png")
AntilopeSavefig ==
    /\ pc = "savefig"
    /\ script.name = "plot_antilope"
    /\ effects' = Append(effects,
                         [file |-> IF script.zoom # "" THEN "antilope_zoom" ELSE "antilope",
                          date |-> locals.date,
                          figure |-> figures,
                          extent |-> locals.extent,
                          title |-> locals.title,
                          stations |-> script.stations,
                          drawn |-> plot.ret])
    /\ Goto("done", locals)
    /\ UNCHANGED <<readerVars, mapVars>>

NextAntilope ==
    \/ AntilopeGetData
    \/ CallPlotAntilope
    \/ AntilopeDate
    \/ AntilopeInitAxes
    \/ AntilopeSetExtent
    \/ AntilopeGetVar
    \/ AntilopeContourf
    \/ AntilopeSavefig

SpecAntilope == InitAntilope /\ [][NextAntilope]_vars

(***************************************************************************)
(* Properties of plot_antilope                                             *)
(***************************************************************************)
Accepted == {"all", "corsica", "mesonh"}

plots_get_limits(FILES, varnames, func) ==
    LET result(k) == IF ~Disk[FILES[k]].ok THEN [raised |-> "OSError", value |-> <<>>]
                     ELSE Compute(Disk[FILES[k]], varnames, func, 0)
        failing == {k \in 1 .. Len(FILES) : result(k).raised # "none"}
        mins == {GridMin(result(k).value) : k \in 1 .. Len(FILES)}
        maxs == {GridMax(result(k).value) : k \in 1 .. Len(FILES)}
    IN  IF failing # {}
        THEN [raised |-> result(CHOOSE k \in failing : \A l \in failing : k <= l).raised,
              ret |-> <<>>]
        ELSE IF FILES = <<>> THEN [raised |-> "none", ret |-> <<PosInf, NegInf>>]
        ELSE [raised |-> "none",
              ret |-> <<Fin(CHOOSE x \in mins : \A y \in mins : x <= y),
                        Fin(CHOOSE x \in maxs : \A y \in maxs : x >= y)>>]

\* plots.init_axes(feature_kw=feature_kw): a new figure with its axes and
\* gridlines.
plots_init_axes(feature_kw) ==
    LET new == [src |-> "plt", n |-> figures + 1]
    IN  [fig |-> new, axes |-> new,
         glines |-> [axes |-> new, top_labels |-> FALSE, right_labels |-> FALSE]]

\* np.linspace(start, stop, num), each value the exact fraction n / d
linspace(start, stop, num) ==
    IF num < 0 THEN [raised |-> "ValueError", value |-> <<>>]
    ELSE IF num = 1 THEN [raised |-> "none", value |-> <<[n |-> start, d |-> 1]>>]
    ELSE [raised |-> "none",
          value |-> [k \in 1 .. num |->
                        [n |-> start * (num - 1) + (k - 1) * (stop - start), d |-> num - 1]]]

\* The nlevels argument: an int, or the levels themselves.
IntLevels(n) == [int |-> TRUE, n |-> n, list |-> <<>>]

ListLevels(l) == [int |-> FALSE, n |-> 0, list |-> l]

\* Mutant: get_levels takes the limits of the first file for those of them all.
get_levels_first_file(FILES, nlevels, varnames, func) ==
    IF nlevels.int
    THEN LET limits == plots_get_limits(SubSeq(FILES, 1, 1), varnames, func)
         IN  IF limits.raised # "none" THEN [raised |-> limits.raised, value |-> <<>>]
             ELSE linspace(limits.ret[1].v, limits.ret[2].v, nlevels.n)
    ELSE [raised |-> "none", value |-> nlevels.list]

\* get_levels(files, nlevels, *varnames, func=func)
get_levels(FILES, nlevels, varnames, func) ==
    IF nlevels.int
    THEN LET limits == plots_get_limits(FILES, varnames, func)
         IN  IF limits.raised # "none" THEN [raised |-> limits.raised, value |-> <<>>]
             ELSE linspace(limits.ret[1].v, limits.ret[2].v, nlevels.n)
    ELSE [raised |-> "none", value |-> nlevels.list]

\* animate_func(data=data, date=date, dx=dx, levels=levels, axes=axes,
\* isanimated=True): the artists of one frame, kept as the function and what it
\* was given.
animate(animate_func, filename, date, dx, levels, axes) ==
    [func |-> animate_func, data |-> filename, date |-> date, dx |-> dx,
     levels |-> levels, axes |-> axes, isanimated |-> TRUE]

\* The arguments animation is called with.
AnimateFuncs == {"instant_precipitation", "accumulated_precipitation"}

AnimationCalls == {<<<<"INPRR">>, "times60">>, <<<<"ACPRR">>, "id">>, <<<<"MSLP">>, "id">>}

NLevels == {IntLevels(1), IntLevels(3), ListLevels(<<0, 50, 100>>)}

InitAnimation ==
    /\ IdleReader
    /\ IdleIndex
    /\ IdleMap
    /\ IdleScript

\* animation(dx, animate_func, *varnames, label=label, nlevels=nlevels, func=func):
\* files = [...]
CallAnimation ==
    /\ pc = "idle"
    /\ \E dx \in Resolutions, animate_func \in AnimateFuncs, c \in AnimationCalls,
          nlevels \in NLevels :
           /\ script' = [name |-> "animation", dx |-> dx, animate_func |-> animate_func,
                         varnames |-> c[1], func |-> c[2], nlevels |-> nlevels]
           /\ locals' = [files |-> AnimationFiles[dx], levels |-> <<>>, computed |-> 0,
                         fig |-> NoFig, axes |-> NoAxes, rest |-> <<>>, frame |-> <<>>,
                         err |-> "none"]
    /\ pc' = "get_levels"
    /\ UNCHANGED <<readerVars, arrays, lookup, mapVars, effects>>

\* levels = get_levels(files, nlevels, *varnames, func=func)
AnimationGetLevels ==
    /\ pc = "get_levels"
    /\ LET o == get_levels(locals.files, script.nlevels, script.varnames, script.func)
       IN  IF o.raised # "none" THEN Goto("raised", [locals EXCEPT !.err = o.raised])
           ELSE Goto("init_axes", [locals EXCEPT !.levels = o.value,
                                                 !.computed = @ + 1])
    /\ UNCHANGED <<readerVars, mapVars, effects>>

\* fig, axes, glines = plots.init_axes(feature_kw=feature_kw); frame = []
AnimationInitAxes ==
    /\ pc = "init_axes"
    /\ script.name = "animation"
    /\ LET o == plots_init_axes(<<>>)
       IN  /\ figures' = figures + 1
           /\ decorated' = decorated \cup {o.axes}
           /\ Goto("for_filename", [locals EXCEPT !.fig = o.fig, !.axes = o.axes,
                                                  !.rest = locals.files, !.frame = <<>>])
    /\ UNCHANGED <<readerVars, map, inited, plot, effects>>

\* for filename in files: data = Dataset(filename); date = ...;
\* frame.append(animate_func(...))
AnimationFrame ==
    /\ pc = "for_filename"
    /\ IF locals.rest = <<>> THEN Goto("save", locals)
       ELSE LET filename == Head(locals.rest)
                time == ReadVar(Disk[filename], "time", 0)
            IN  IF ~Disk[filename].ok THEN Goto("raised", [locals EXCEPT !.err = "OSError"])
                ELSE IF time.raised # "none"
                THEN Goto("raised", [locals EXCEPT !.err = time.raised])
                ELSE Goto("for_filename",
                          [locals EXCEPT !.rest = Tail(@),
                                         !.frame = Append(@, animate(script.animate_func,
                                                                     filename, time.value,
                                                                     script.dx, locals.levels,
                                                                     locals.axes))])
    /\ UNCHANGED <<readerVars, mapVars, effects>>

\* plt.colorbar(frame[-1][0], ...); animation = ArtistAnimation(fig, frame, ...);
\* animation.save(f"{animate_func.__name__}.gif")
AnimationSave ==
    /\ pc = "save"
    /\ IF locals.frame = <<>>
       THEN /\ Goto("raised", [locals EXCEPT !.err = "IndexError"])
            /\ UNCHANGED effects
       ELSE /\ effects' = Append(effects, [file |-> script.animate_func, fig |-> locals.fig,
                                           frames |-> locals.frame])
            /\ Goto("done", locals)
    /\ UNCHANGED <<readerVars, mapVars>>

NextAnimation ==
    \/ CallAnimation
    \/ AnimationGetLevels
    \/ AnimationInitAxes
    \/ AnimationFrame
    \/ AnimationSave

SpecAnimation == InitAnimation /\ [][NextAnimation]_vars

(***************************************************************************)
(* Properties of meso_nh.animation                                         *)
(***************************************************************************)
\* The values func(...) takes over every cell of every file of the list.
ValuesOver(FILES, varnames, func) ==
    UNION { { At(Compute(Disk[FILES[k]], varnames, func, 0).value, c[1], c[2])
              : c \in Cells(LonA) } : k \in 1 .. Len(FILES) }

\* levels is what get_levels is to give for nlevels: nlevels values, the first
\* the global minimum, the last the global maximum, each as far from the one
\* before it as the next, when nlevels is an int; nlevels itself otherwise.
LevelsAsAsked ==
    IF ~script.nlevels.int THEN locals.levels = script.nlevels.list
    ELSE LET vals == ValuesOver(locals.files, script.varnames, script.func)
             lv == locals.levels
             num == script.nlevels.n
         IN  /\ Len(lv) = num
             /\ \E lo \in vals, hi \in vals :
                    /\ \A x \in vals : lo <= x /\ x <= hi
                    /\ lv[1].n = lo * lv[1].d
                    /\ num > 1 => lv[num].n = hi * lv[num].d
             /\ \A k \in 2 .. num - 1 :
                    RatEq(RatAdd(lv[k], lv[k]), RatAdd(lv[k - 1], lv[k + 1]))

====
